---- MODULE Spec2Model ----
(***************************************************************************)
(* Model of the blaze HTTP client (src/unnamed/part_002): the connection   *)
(* pool (ConnectionPool) and the request pipeline (HttpClient::Impl).      *)
(*                                                                         *)
(* Environment assumptions: curl_easy_init() always succeeds (no           *)
(* allocation failure); curl_easy_perform() follows the libcurl contract:  *)
(* it hands body chunks to the write callback, and a write callback that   *)
(* returns a count different from the chunk size aborts the transfer with  *)
(* CURLE_WRITE_ERROR.                                                      *)
(***************************************************************************)
EXTENDS Integers, Sequences, FiniteSets, TLC

\* ---------------------------------------------------------------- bounds
NumPoolThreads == 3      \* threads calling the pool directly
NumClients == 2          \* threads running requests on one client concurrently
MaxConn == 2             \* largest max_connections a pool is built with
MaxAttempts == 3         \* largest argument given to enableRetry
MaxChunks == 2           \* most body chunks a server sends in one transfer
MaxChunkSize == 1        \* largest body chunk
MaxRespSize == 1         \* largest argument given to setMaxResponseSize
MaxInterceptors == 2     \* most interceptors of one kind registered
MaxHeaderLists == 2      \* a request starts while header_lists_ is shorter than this
MaxHostLen == 2          \* longest host of the URLs given to isValidUrl

PoolThreads == 1..NumPoolThreads
Clients == 1..NumClients

NULL == 0                \* the null CURL* handle; thread 0 = "nobody"

VARIABLES
    \* ConnectionPool
    mutex_,               \* owner of ConnectionPool::mutex_ (0 = unlocked)
    available_handles_,   \* std::queue<CURL*>
    max_connections_,     \* size_t, fixed by the constructor
    total_handles_,       \* std::atomic<size_t>
    \* libcurl heap: handles created by curl_easy_init and not yet cleaned up
    handles,
    easy,                 \* the options set on each of these handles
    \* per thread
    pc,                   \* position of the thread
    op,                   \* the operation the thread is running
    curl,                 \* the CURL* local of the running operation
    \* HttpClient::Impl members
    config_,              \* HttpConfig
    request_interceptors_,
    response_interceptors_,
    log_callback_,
    header_lists_,        \* std::vector<struct curl_slist*>: its size
    \* per request (locals of performRequest / streamResponse / sendWithProgress)
    response,             \* HttpResponse being filled in
    loc,                  \* processed_request, attempts, max_attempts, delay, write_data, ...
    hist,                 \* what the call did so far: handles acquired and released,
                          \* sleeps performed, results of curl_easy_perform, the
                          \* outcome of each attempt, the request as passed, the
                          \* chunks delivered to the stream callback and the chunk
                          \* it refused, and the calls of interceptors, acquire()
                          \* and release() in the order they were made
    env                   \* what the network may do: results and body chunks

poolvars == <<mutex_, available_handles_, max_connections_, total_handles_, handles>>
implvars == <<config_, request_interceptors_, response_interceptors_, log_callback_>>
reqvars == <<response, loc, hist>>
vars == <<mutex_, available_handles_, max_connections_, total_handles_, handles,
          pc, op, curl, config_, request_interceptors_, response_interceptors_,
          log_callback_, response, loc, hist, header_lists_, easy, env>>

Range(s) == {s[i] : i \in DOMAIN s}
Max(a, b) == IF a > b THEN a ELSE b

\* std::map<std::string, std::string>
EmptyMap == [k \in {} |-> ""]
Put(m, k, v) == [x \in (DOMAIN m) \cup {k} |-> IF x = k THEN v ELSE m[x]]

\* ------------------------------------------------------------ data types
\* enum class LogLevel { None, Error, Warn, Info, Debug }
LogLevel == [None |-> 0, Error |-> 1, Warn |-> 2, Info |-> 3, Debug |-> 4]

\* enum class ErrorType
ErrorType == {"None", "NetworkError", "TimeoutError", "SSLError", "InvalidUrl",
              "ResponseTooLarge", "Unknown"}

\* struct HttpResponse, default-initialised
HttpResponse == [status_code |-> 0, headers |-> EmptyMap, body |-> <<>>,
                 success |-> FALSE, error_message |-> "", error_type |-> "None",
                 request_id |-> <<>>]

\* struct RetryConfig, default-initialised; backoff_multiplier 2.0 is num/den
RetryConfig == [max_attempts |-> 3, initial_delay |-> 1000,
                backoff_multiplier |-> [num |-> 2, den |-> 1],
                max_delay |-> 30000, retry_status_codes |-> {429, 502, 503, 504}]

\* struct Auth, default-initialised; username and password go to
\* CURLOPT_USERNAME and CURLOPT_PASSWORD, never to a header
Auth == [type |-> "None", token |-> "", api_key_header |-> "X-API-Key"]

\* auth::basic, auth::bearer, auth::apiKey
basic == [Auth EXCEPT !.type = "Basic"]
bearer(token) == [Auth EXCEPT !.type = "Bearer", !.token = token]
apiKey(key, header) == [Auth EXCEPT !.type = "ApiKey", !.token = key,
                                     !.api_key_header = header]

\* std::optional<Auth>: std::nullopt, a value, and value_or
nullopt == [has_value |-> FALSE, value |-> Auth]
optional(auth) == [has_value |-> TRUE, value |-> auth]
value_or(opt, default) == IF opt.has_value THEN opt.value ELSE default

\* struct HttpConfig, default-initialised (the fields the pipeline reads)
HttpConfig == [user_agent |-> "Blaze/2.0",
               max_response_size |-> 100 * 1024 * 1024, max_connections |-> 10,
               default_headers |-> EmptyMap, auth |-> Auth,
               retry |-> RetryConfig, log_level |-> LogLevel.Error]

\* struct WriteCallbackData / ProgressCallbackData and the other locals
NoLocals == [request |-> [url |-> <<>>, headers |-> EmptyMap, auth |-> nullopt,
                          request_id |-> <<>>, enable_metrics |-> TRUE],
             attempts |-> 0, max_attempts |-> 0, delay |-> 0,
             httpheader |-> <<>>,     \* CURLOPT_HTTPHEADER of the handle in use
             push_back |-> 0,         \* lists still to be put into header_lists_
             size |-> 0,              \* header_lists_.size() as push_back read it
             write_data |-> [current_size |-> 0, size_exceeded |-> FALSE,
                             use_stream |-> FALSE, max_size |-> 0],
             cancelled |-> FALSE, aborted |-> "no", chunks |-> 0]

NoHist == [acquired |-> <<>>, released |-> <<>>, sleeps |-> <<>>, results |-> <<>>,
           outcomes |-> <<>>, request |-> NoLocals.request,
           delivered |-> 0, refused |-> 0, trace |-> <<>>,
           total_time |-> FALSE]     \* response.metrics.total_time was assigned

\* ------------------------------------------------------------ libcurl
\* curl_easy_init(): a handle that is not live; the allocator may reuse the
\* address of a handle that was cleaned up.
curl_easy_init(heap) == CHOOSE h \in 1..(Cardinality(heap) + 1) :
                            /\ h \notin heap
                            /\ \A g \in 1..(h - 1) : g \in heap

\* the options of a handle the requests set: CURLOPT_HTTPHEADER, whether
\* CURLOPT_USERNAME and CURLOPT_PASSWORD are set, CURLOPT_WRITEFUNCTION and
\* CURLOPT_NOPROGRESS; here as curl_easy_init() leaves them
CurlDefaults == [httpheader |-> <<>>, username |-> FALSE,
                 writefunction |-> "fwrite", noprogress |-> TRUE]

\* a reset that leaves the options as they are
curl_easy_reset_keeps(options) == options

\* curl_easy_reset(handle): every option back to its default
curl_easy_reset(options) == CurlDefaults

\* CURLcode values curl_easy_perform can return
CURLcode == {"CURLE_OK", "CURLE_OPERATION_TIMEDOUT", "CURLE_SSL_CONNECT_ERROR",
             "CURLE_SSL_CERTPROBLEM", "CURLE_SSL_CIPHER", "CURLE_SSL_CACERT",
             "CURLE_URL_MALFORMAT", "CURLE_COULDNT_RESOLVE_HOST",
             "CURLE_COULDNT_CONNECT", "CURLE_RECV_ERROR", "CURLE_SEND_ERROR",
             "CURLE_WRITE_ERROR", "CURLE_ABORTED_BY_CALLBACK", "CURLE_GOT_NOTHING",
             "CURLE_UNSUPPORTED_PROTOCOL", "CURLE_COULDNT_RESOLVE_PROXY",
             "CURLE_PARTIAL_FILE", "CURLE_TOO_MANY_REDIRECTS",
             "CURLE_SSL_ENGINE_NOTFOUND", "CURLE_SSL_ENGINE_SETFAILED",
             "CURLE_USE_SSL_FAILED", "CURLE_SSL_ENGINE_INITFAILED",
             "CURLE_SSL_CACERT_BADFILE", "CURLE_SSL_CRL_BADFILE",
             "CURLE_SSL_ISSUER_ERROR", "CURLE_SSL_PINNEDPUBKEYNOTMATCH",
             "CURLE_SSL_INVALIDCERTSTATUS"}

\* curl_easy_strerror(): a non-empty text for every code
curl_easy_strerror(code) ==
    CASE code = "CURLE_OK" -> "No error"
      [] code = "CURLE_OPERATION_TIMEDOUT" -> "Timeout was reached"
      [] code = "CURLE_SSL_CONNECT_ERROR" -> "SSL connect error"
      [] code = "CURLE_SSL_CERTPROBLEM" -> "Problem with the local SSL certificate"
      [] code = "CURLE_SSL_CIPHER" -> "Couldn't use specified SSL cipher"
      [] code = "CURLE_SSL_CACERT" -> "SSL peer certificate or SSH remote key was not OK"
      [] code = "CURLE_URL_MALFORMAT" -> "URL using bad/illegal format or missing URL"
      [] code = "CURLE_COULDNT_RESOLVE_HOST" -> "Couldn't resolve host name"
      [] code = "CURLE_COULDNT_CONNECT" -> "Couldn't connect to server"
      [] code = "CURLE_RECV_ERROR" -> "Failure when receiving data from the peer"
      [] code = "CURLE_SEND_ERROR" -> "Failed sending data to the peer"
      [] code = "CURLE_WRITE_ERROR" -> "Failed writing received data to disk/application"
      [] code = "CURLE_ABORTED_BY_CALLBACK" -> "Operation was aborted by an application callback"
      [] OTHER -> "Server returned nothing (no headers, no data)"

\* what a transfer can end with when no callback aborted it: CURLE_OK with
\* the status line's code, or a failure (the response code is not read then)
Statuses == {200, 404, 500, 503}
Results == {[code |-> "CURLE_OK", status |-> s] : s \in Statuses} \cup
           {[code |-> c, status |-> 0] :
               c \in {"CURLE_OPERATION_TIMEDOUT", "CURLE_SSL_CONNECT_ERROR",
                      "CURLE_URL_MALFORMAT", "CURLE_COULDNT_RESOLVE_HOST",
                      "CURLE_GOT_NOTHING"}}

\* with the results of a transfer that a callback aborted
WriteError == [code |-> "CURLE_WRITE_ERROR", status |-> 0]
AbortedByCallback == [code |-> "CURLE_ABORTED_BY_CALLBACK", status |-> 0]
AllResults == Results \cup {WriteError, AbortedByCallback}

\* ------------------------------------------------------------ utils
Whitespace == {" ", "\t", "\n", "\r"}
LineTerminators == {"\n", "\r"}
Lower(c) == CASE c = "H" -> "h" [] c = "T" -> "t" [] c = "P" -> "p"
              [] c = "S" -> "s" [] OTHER -> c
StartsWith(u, p) == /\ Len(u) >= Len(p)
                    /\ \A i \in 1..Len(p) : Lower(u[i]) = p[i]

\* utils::isValidUrl: regex_match(url, ^https?://[^\s/$.?#].[^\s]*$, icase)
isValidUrl(url) ==
    \E p \in {<<"h","t","t","p",":","/","/">>, <<"h","t","t","p","s",":","/","/">>} :
        /\ StartsWith(url, p)
        /\ Len(url) >= Len(p) + 2
        /\ url[Len(p) + 1] \notin Whitespace \cup {"/", "$", ".", "?", "#"}
        /\ url[Len(p) + 2] \notin LineTerminators
        /\ \A i \in (Len(p) + 3)..Len(url) : url[i] \notin Whitespace

\* const char* hex_chars = "0123456789abcdef"
hex_chars == <<"0", "1", "2", "3", "4", "5", "6", "7", "8", "9",
               "a", "b", "c", "d", "e", "f">>

\* utils::generateRequestId(): dis is the sequence of numbers dis(gen) draws
generateRequestId(dis) ==
    [i \in 1..8 |-> hex_chars[dis[i] + 1]] \o <<"-">> \o
    [i \in 1..4 |-> hex_chars[dis[8 + i] + 1]] \o <<"-", "4">> \o
    [i \in 1..3 |-> hex_chars[dis[12 + i] + 1]] \o <<"-">> \o
    <<hex_chars[8 + (dis[16] % 4) + 1]>> \o
    [i \in 1..3 |-> hex_chars[dis[16 + i] + 1]] \o <<"-">> \o
    [i \in 1..12 |-> hex_chars[dis[19 + i] + 1]]

\* the identifiers the generator produces for the draws considered
GeneratedIds == {generateRequestId([i \in 1..31 |-> (7 * i + d) % 16]) : d \in {3, 4}}

\* ------------------------------------------------------------ inputs
UrlValid == <<"h","t","t","p","s",":","/","/","a","b">>
UrlNoScheme == <<"n","o","t","-","a","-","u","r","l">>
Urls == {UrlValid, UrlNoScheme}
RequestIds == {<<>>, <<"r", "1">>}
\* client.get(url): a request with a valid URL and nothing else set
GetRequest == [url |-> UrlValid, headers |-> EmptyMap, auth |-> nullopt,
               request_id |-> <<>>, enable_metrics |-> TRUE]
Requests == [url : Urls, headers : {EmptyMap}, auth : {nullopt},
             request_id : RequestIds, enable_metrics : {TRUE}]

\* requests with and without metrics
MetricsRequests == [url : Urls, headers : {EmptyMap}, auth : {nullopt},
                    request_id : {<<>>}, enable_metrics : BOOLEAN]

\* the request interceptors a caller registers
RequestInterceptors == {"add_header", "set_url"}
ApplyRequestInterceptor(i, req) ==
    CASE i = "add_header" -> [req EXCEPT !.headers = Put(@, "X-Intercepted", "true")]
      [] i = "set_url" -> [req EXCEPT !.url = UrlNoScheme]
ResponseInterceptors == {"add_header", "rewrite_header"}
ApplyResponseInterceptor(i, resp) ==
    CASE i = "add_header" -> [resp EXCEPT !.headers = Put(@, "X-Response-Intercepted", "true")]
      [] i = "rewrite_header" ->
            [resp EXCEPT !.headers = Put(@, "X-Response-Intercepted", "rewritten")]

\* the retry policy of the scenario: 3 attempts, 100 ms, factor 2, cap 1000 ms
ScenarioRetry == [RetryConfig EXCEPT !.initial_delay = 100, !.max_delay = 1000]

\* the retry policies a caller configures
RetryConfigs ==
    { [RetryConfig EXCEPT !.initial_delay = 100, !.max_delay = 1000],
      [RetryConfig EXCEPT !.initial_delay = 1000, !.max_delay = 500],
      [RetryConfig EXCEPT !.initial_delay = 100, !.max_delay = 1000,
                          !.backoff_multiplier = [num |-> 1, den |-> 2]],
      [RetryConfig EXCEPT !.initial_delay = 3, !.max_delay = 5,
                          !.backoff_multiplier = [num |-> 3, den |-> 2],
                          !.retry_status_codes = {503}] }
LogCallbacks == {"null", "throws"}

\* ------------------------------------------------------------ ConnectionPool
\* where a thread continues once acquire()/release() returned
AfterAcquire(o) == IF o = "pool" THEN "holding" ELSE "setup"
AfterRelease(o) == CASE o = "pool" -> "idle"
                     [] o = "send" -> "released"
                     [] OTHER -> "done"      \* return response

\* a lock_guard whose mutex stays with the thread when the function returns
lock_guard_end_kept(t) == t

\* ~lock_guard() when acquire() or release() returns: the owner of the mutex
lock_guard_end(t) == 0

\* std::lock_guard<std::mutex> lock(mutex_) at the top of acquire()
acquire_lock(t) ==
    /\ pc[t] = "acquire_lock"
    /\ mutex_ = 0
    /\ mutex_' = t
    /\ pc' = [pc EXCEPT ![t] = "acquire"]
    /\ UNCHANGED <<available_handles_, max_connections_, total_handles_, handles,
                   op, curl, implvars, reqvars, header_lists_, easy, env>>

\* an acquire() that hands out the front handle without popping it
acquire_result_nopop(avail, total, max, heap) ==
    IF avail # <<>>
      THEN [handle |-> Head(avail), available |-> avail, total |-> total, heap |-> heap]
      ELSE [handle |-> curl_easy_init(heap), available |-> avail,
            total |-> IF total < max THEN total + 1 ELSE total,
            heap |-> heap \cup {curl_easy_init(heap)}]

\* what acquire() returns and leaves behind
acquire_result(avail, total, max, heap) ==
    IF avail # <<>>
      THEN [handle |-> Head(avail), available |-> Tail(avail), total |-> total,
            heap |-> heap]
      ELSE [handle |-> curl_easy_init(heap), available |-> avail,
            total |-> IF total < max THEN total + 1 ELSE total,
            heap |-> heap \cup {curl_easy_init(heap)}]

\* the body of acquire() for a given readiness condition
acquire_when(t, ready) ==
    LET r == acquire_result(available_handles_, total_handles_, max_connections_, handles)
    IN  /\ pc[t] = "acquire"
        /\ mutex_ = t
        /\ ready
        /\ curl' = [curl EXCEPT ![t] = r.handle]
        /\ available_handles_' = r.available
        /\ total_handles_' = r.total
        /\ handles' = r.heap
        /\ easy' = [h \in r.heap |->
                        IF h # r.handle THEN easy[h]
                        ELSE IF h \in handles THEN curl_easy_reset(easy[h])
                        ELSE CurlDefaults]
        /\ mutex_' = lock_guard_end(t)
        /\ pc' = [pc EXCEPT ![t] = AfterAcquire(op[t])]
        /\ hist' = [hist EXCEPT
                        ![t].acquired = IF op[t] = "pool" THEN @ ELSE Append(@, r.handle),
                        ![t].trace = IF op[t] = "pool" THEN @
                                     ELSE Append(@, [call |-> "acquire", index |-> r.handle])]
        /\ UNCHANGED <<max_connections_, op, implvars, response, loc, header_lists_, env>>

\* a pool whose acquire() waits for a release() once the maximum is reached
acquire_blocking(t) ==
    acquire_when(t, available_handles_ # <<>> \/ total_handles_ < max_connections_)

\* body of acquire() under the lock; the lock_guard unlocks on return
acquire(t) == acquire_when(t, TRUE)

\* if (!handle) return;  then the lock_guard
release_lock(t) ==
    /\ pc[t] = "release_lock"
    /\ IF curl[t] = NULL
         THEN /\ pc' = [pc EXCEPT ![t] = AfterRelease(op[t])]
              /\ UNCHANGED mutex_
         ELSE /\ mutex_ = 0
              /\ mutex_' = t
              /\ pc' = [pc EXCEPT ![t] = "release"]
    /\ UNCHANGED <<available_handles_, max_connections_, total_handles_, handles,
                   op, curl, implvars, reqvars, header_lists_, easy, env>>

\* a release() that always puts the handle back
release_result_nocap(avail, total, max, heap, h) ==
    [available |-> Append(avail, h), total |-> total, heap |-> heap]

\* a release() that decrements the counter whatever its value
release_result_unchecked(avail, total, max, heap, h) ==
    IF Len(avail) < max
      THEN [available |-> Append(avail, h), total |-> total, heap |-> heap]
      ELSE [available |-> avail, total |-> total - 1, heap |-> heap \ {h}]

\* a release() that drops the handle of a full pool without cleaning it up
release_result_leaks(avail, total, max, heap, h) ==
    IF Len(avail) < max
      THEN [available |-> Append(avail, h), total |-> total, heap |-> heap]
      ELSE [available |-> avail, total |-> IF total > 0 THEN total - 1 ELSE total,
            heap |-> heap]

\* what release(h) leaves behind
release_result(avail, total, max, heap, h) ==
    IF Len(avail) < max
      THEN [available |-> Append(avail, h), total |-> total, heap |-> heap]
      ELSE [available |-> avail, total |-> IF total > 0 THEN total - 1 ELSE total,
            heap |-> heap \ {h}]

\* body of release() under the lock; the caller's pointer is dead afterwards
release(t) ==
    LET r == release_result(available_handles_, total_handles_, max_connections_,
                            handles, curl[t])
    IN  /\ pc[t] = "release"
        /\ mutex_ = t
        /\ available_handles_' = r.available
        /\ total_handles_' = r.total
        /\ handles' = r.heap
        /\ easy' = [h \in r.heap |-> easy[h]]
        /\ curl' = [curl EXCEPT ![t] = NULL]
        /\ mutex_' = lock_guard_end(t)
        /\ pc' = [pc EXCEPT ![t] = AfterRelease(op[t])]
        /\ hist' = [hist EXCEPT
                        ![t].released = IF op[t] = "pool" THEN @ ELSE Append(@, curl[t]),
                        ![t].trace = IF op[t] = "pool" THEN @
                                     ELSE Append(@, [call |-> "release", index |-> curl[t]])]
        /\ UNCHANGED <<max_connections_, op, implvars, response, loc, header_lists_, env>>

\* ~ConnectionPool(), when the client is destroyed with no request running:
\* every handle of the available set is cleaned up and popped; nothing can
\* be called on the client afterwards
ConnectionPool_destructor ==
    /\ \A t \in DOMAIN pc : pc[t] = "idle"
    /\ mutex_ = 0
    /\ available_handles_' = <<>>
    /\ handles' = handles \ Range(available_handles_)
    /\ easy' = [h \in handles \ Range(available_handles_) |-> easy[h]]
    /\ pc' = [t \in DOMAIN pc |-> "destroyed"]
    /\ UNCHANGED <<mutex_, max_connections_, total_handles_, op, curl, implvars,
                   reqvars, header_lists_, env>>

\* ------------------------------------- threads using the pool directly
call_acquire(t) ==
    /\ pc[t] = "idle"
    /\ pc' = [pc EXCEPT ![t] = "acquire_lock"]
    /\ op' = [op EXCEPT ![t] = "pool"]
    /\ UNCHANGED <<poolvars, curl, implvars, reqvars, header_lists_, easy, env>>

call_release(t) ==
    /\ pc[t] = "holding"
    /\ pc' = [pc EXCEPT ![t] = "release_lock"]
    /\ UNCHANGED <<poolvars, op, curl, implvars, reqvars, header_lists_, easy, env>>

\* release(nullptr)
call_release_null(t) ==
    /\ pc[t] = "idle"
    /\ curl[t] = NULL
    /\ pc' = [pc EXCEPT ![t] = "release_lock"]
    /\ op' = [op EXCEPT ![t] = "pool"]
    /\ UNCHANGED <<poolvars, curl, implvars, reqvars, header_lists_, easy, env>>

\* ------------------------------------------------------------ callbacks
\* Impl::log -> Logger::log: the log callback runs when level <= config_.log_level
LogThrows(level) == level <= config_.log_level /\ log_callback_ = "throws"

\* a loop that visits the interceptors last to first
interceptor_calls_reversed(kind, is) ==
    [i \in 1..Len(is) |-> [call |-> kind, index |-> Len(is) + 1 - i]]

\* for (auto& interceptor : ...): the calls the loop makes, first to last
interceptor_calls(kind, is) == [i \in 1..Len(is) |-> [call |-> kind, index |-> i]]

RECURSIVE RunRequestInterceptors(_, _)
\* for (auto& interceptor : request_interceptors_) interceptor(processed_request)
RunRequestInterceptors(is, req) ==
    IF is = <<>> THEN req
    ELSE RunRequestInterceptors(Tail(is), ApplyRequestInterceptor(Head(is), req))

RECURSIVE RunResponseInterceptors(_, _)
\* for (auto& interceptor : response_interceptors_) interceptor(response)
RunResponseInterceptors(is, resp) ==
    IF is = <<>> THEN resp
    ELSE RunResponseInterceptors(Tail(is), ApplyResponseInterceptor(Head(is), resp))

\* a write callback that goes on whatever the stream callback answers
WriteCallback_goes_on(total_size, data, body, byte, continue) ==
    IF data.current_size + total_size > data.max_size
      THEN [ret |-> 0, data |-> [data EXCEPT !.size_exceeded = TRUE], body |-> body,
            called |-> FALSE]
      ELSE LET d == [data EXCEPT !.current_size = @ + total_size]
           IN  IF d.use_stream
                 THEN [ret |-> total_size, data |-> d, body |-> body, called |-> TRUE]
                 ELSE [ret |-> total_size, data |-> d,
                       body |-> body \o [i \in 1..total_size |-> byte],
                       called |-> FALSE]

\* WriteCallback(contents, size, nmemb, data): `byte` is the content of the
\* chunk, `continue` what the stream callback answers; `called` tells whether
\* the stream callback was invoked
WriteCallback(total_size, data, body, byte, continue) ==
    IF data.current_size + total_size > data.max_size
      THEN [ret |-> 0, data |-> [data EXCEPT !.size_exceeded = TRUE], body |-> body,
            called |-> FALSE]
      ELSE LET d == [data EXCEPT !.current_size = @ + total_size]
           IN  IF d.use_stream
                 THEN [ret |-> IF continue THEN total_size ELSE 0, data |-> d,
                       body |-> body, called |-> TRUE]
                 ELSE [ret |-> total_size, data |-> d,
                       body |-> body \o [i \in 1..total_size |-> byte],
                       called |-> FALSE]

\* Impl::mapCurlErrorToErrorType
mapCurlErrorToErrorType(code) ==
    CASE code = "CURLE_OPERATION_TIMEDOUT" -> "TimeoutError"
      [] code \in {"CURLE_SSL_CONNECT_ERROR", "CURLE_SSL_CERTPROBLEM",
                   "CURLE_SSL_CIPHER", "CURLE_SSL_CACERT"} -> "SSLError"
      [] code = "CURLE_URL_MALFORMAT" -> "InvalidUrl"
      [] code \in {"CURLE_COULDNT_RESOLVE_HOST", "CURLE_COULDNT_CONNECT",
                   "CURLE_RECV_ERROR", "CURLE_SEND_ERROR"} -> "NetworkError"
      [] OTHER -> "Unknown"

\* ------------------------------------------------------------ curl options
\* the order in which a std::map<std::string, std::string> is iterated
HeaderNames == <<"Accept", "Authorization", "User-Agent", "X-API-Key",
                 "X-Intercepted", "X-Test-Header">>

\* for (const auto& header : map): the lines name: value, in key order
HeaderLines(map) ==
    LET names == SelectSeq(HeaderNames, LAMBDA name : name \in DOMAIN map)
    IN  [i \in 1..Len(names) |-> <<names[i], map[names[i]]>>]

\* setupHeaders: the default headers then the request's, one list; the list
\* is set as CURLOPT_HTTPHEADER and kept in header_lists_ when not empty
setupHeaders(default_headers, request) ==
    LET chunk == HeaderLines(default_headers) \o HeaderLines(request.headers)
    IN  [httpheader |-> chunk, push_back |-> IF chunk # <<>> THEN 1 ELSE 0]

\* configureAuth, after setupHeaders left the options o: Bearer and ApiKey set
\* CURLOPT_HTTPHEADER to a list of their own
configureAuth(auth, o) ==
    CASE auth.type = "Bearer" ->
            [httpheader |-> << <<"Authorization", <<"Bearer", auth.token>> >> >>,
             push_back |-> o.push_back + 1]
      [] auth.type = "ApiKey" ->
            [httpheader |-> << <<auth.api_key_header, auth.token>> >>,
             push_back |-> o.push_back + 1]
      [] OTHER -> o

\* setupCurlOptions: setupHeaders(curl, request);
\* configureAuth(curl, request.auth.value_or(config_.auth))
setupCurlOptions(config, request) ==
    configureAuth(value_or(request.auth, config.auth),
                  setupHeaders(config.default_headers, request))

\* the curl_easy_setopt calls of setupCurlOptions on a handle with the given
\* options: the write callback always, the header list when setupHeaders or
\* configureAuth set one (o), the credentials for Basic
curl_easy_setopt(options, config, request, o) ==
    [options EXCEPT
        !.writefunction = "WriteCallback",
        !.httpheader = IF o.push_back > 0 THEN o.httpheader ELSE @,
        !.username = IF value_or(request.auth, config.auth).type = "Basic"
                       THEN TRUE ELSE @]

\* where a thread continues after setupCurlOptions left the options o
AfterSetup(o) == IF o.push_back > 0 THEN "push_back" ELSE "perform"

\* header_lists_.push_back(list) reads the size of the vector ...
push_back(t) ==
    /\ pc[t] = "push_back"
    /\ loc' = [loc EXCEPT ![t].size = header_lists_]
    /\ pc' = [pc EXCEPT ![t] = "push_back_end"]
    /\ UNCHANGED <<poolvars, op, curl, implvars, response, hist, header_lists_, easy, env>>

\* ... and stores the list and the new size. No lock is held: when another
\* thread changed the vector in between, the outcome is undefined - the
\* vector ends up with this thread's size (the other's entry is lost) or with
\* one more than it has now
push_back_end(t) ==
    /\ pc[t] = "push_back_end"
    /\ \E n \in {loc[t].size + 1, header_lists_ + 1} : header_lists_' = n
    /\ loc' = [loc EXCEPT ![t].push_back = @ - 1]
    /\ pc' = [pc EXCEPT ![t] = IF loc[t].push_back > 1 THEN "push_back" ELSE "perform"]
    /\ UNCHANGED <<poolvars, op, curl, implvars, response, hist, easy, env>>

\* ------------------------------------------------------------ retry loop
\* delay = static_cast<long>(delay.count() * backoff_multiplier), capped at max_delay
NextDelay(delay, retry) ==
    LET d == (delay * retry.backoff_multiplier.num) \div retry.backoff_multiplier.den
    IN  IF d > retry.max_delay THEN retry.max_delay ELSE d

\* the loop was left: response interceptors, return response; h is the
\* history of the call so far
Return(t, resp, l, h) ==
    /\ loc' = [loc EXCEPT ![t] = l]
    /\ response' = [response EXCEPT ![t] =
                        RunResponseInterceptors(response_interceptors_, resp)]
    /\ hist' = [hist EXCEPT ![t] =
                    [h EXCEPT !.total_time = @ \/ l.request.enable_metrics,
                              !.trace = @ \o interceptor_calls("response_interceptor",
                                                               response_interceptors_)]]
    /\ pc' = [pc EXCEPT ![t] = "done"]

\* a loop that runs while attempts <= max_attempts
LoopOrReturn_le(t, resp, l, h) ==
    IF l.attempts <= l.max_attempts
      THEN /\ loc' = [loc EXCEPT ![t] = [l EXCEPT !.attempts = @ + 1]]
           /\ response' = [response EXCEPT ![t] = resp]
           /\ hist' = [hist EXCEPT ![t] = h]
           /\ pc' = [pc EXCEPT ![t] = "acquire_lock"]
      ELSE Return(t, resp, l, h)

\* a loop that makes its first attempt whatever max_attempts is
LoopOrReturn_dowhile(t, resp, l, h) ==
    IF l.attempts = 0 \/ l.attempts < l.max_attempts
      THEN /\ loc' = [loc EXCEPT ![t] = [l EXCEPT !.attempts = @ + 1]]
           /\ response' = [response EXCEPT ![t] = resp]
           /\ hist' = [hist EXCEPT ![t] = h]
           /\ pc' = [pc EXCEPT ![t] = "acquire_lock"]
      ELSE Return(t, resp, l, h)

\* while (attempts < max_attempts) { attempts++; performSingleRequest(...) ...
LoopOrReturn(t, resp, l, h) ==
    IF l.attempts < l.max_attempts
      THEN /\ loc' = [loc EXCEPT ![t] = [l EXCEPT !.attempts = @ + 1]]
           /\ response' = [response EXCEPT ![t] = resp]
           /\ hist' = [hist EXCEPT ![t] = h]
           /\ pc' = [pc EXCEPT ![t] = "acquire_lock"]
      ELSE Return(t, resp, l, h)

\* an early return that goes through the end of performRequest
return_response_intercepted(t, resp, l, h) == Return(t, resp, l, h)

\* log(LogLevel::Error, "Invalid URL: ..."); return response;
return_response(t, resp, l, h) ==
    /\ response' = [response EXCEPT ![t] = resp]
    /\ loc' = [loc EXCEPT ![t] = l]
    /\ hist' = [hist EXCEPT ![t] = h]
    /\ pc' = [pc EXCEPT ![t] = IF LogThrows(LogLevel.Error) THEN "threw" ELSE "done"]

\* a check of the URL the caller passed, before the interceptors changed it
url_check_original(request, processed) == isValidUrl(request.url)

\* if (!utils::isValidUrl(processed_request.url)): the URL the check is given
url_check(request, processed) == isValidUrl(processed.url)

\* a request_id that is always generated
request_id_generated(request, id) == id

\* request.request_id.empty() ? utils::generateRequestId() : request.request_id
request_id_for(request, id) ==
    IF request.request_id = <<>> THEN id ELSE request.request_id

\* HttpClient::send -> Impl::performRequest, up to the first acquire()
send(t, request) ==
    /\ pc[t] = "idle"
    /\ header_lists_ < MaxHeaderLists
    /\ op' = [op EXCEPT ![t] = "send"]
    /\ \E id \in GeneratedIds :
         LET resp0 == [HttpResponse EXCEPT
                          !.request_id = request_id_for(request, id),
                          !.success = FALSE]
             processed == RunRequestInterceptors(request_interceptors_, request)
             l0 == [NoLocals EXCEPT !.request = processed]
             h0 == [NoHist EXCEPT
                       !.request = request,
                       !.trace = interceptor_calls("request_interceptor",
                                                   request_interceptors_)]
         IN  IF ~url_check(request, processed)
               THEN return_response(t, [resp0 EXCEPT !.error_message = "Invalid URL",
                                                     !.error_type = "InvalidUrl"],
                                    l0, h0)
               ELSE LoopOrReturn(t, resp0,
                        [l0 EXCEPT !.max_attempts = config_.retry.max_attempts,
                                   !.delay = config_.retry.initial_delay], h0)
    /\ UNCHANGED <<poolvars, curl, implvars, header_lists_, easy, env>>

\* performSingleRequest between acquire() and curl_easy_perform()
performSingleRequest_setup(t) ==
    /\ pc[t] = "setup"
    /\ op[t] = "send"
    /\ LET o == setupCurlOptions(config_, loc[t].request)
       IN  /\ loc' = [loc EXCEPT ![t].write_data =
                          [current_size |-> 0, size_exceeded |-> FALSE,
                           use_stream |-> FALSE, max_size |-> config_.max_response_size],
                                 ![t].aborted = "no", ![t].chunks = 0,
                                 ![t].httpheader = o.httpheader,
                                 ![t].push_back = o.push_back]
           /\ easy' = [easy EXCEPT ![curl[t]] =
                           curl_easy_setopt(@, config_, loc[t].request, o)]
           /\ pc' = [pc EXCEPT ![t] = AfterSetup(o)]
    /\ UNCHANGED <<mutex_, available_handles_, max_connections_, total_handles_, handles,
                   op, curl, implvars, response, hist, header_lists_, env>>

\* curl_easy_perform receives a body chunk of n bytes and calls WriteCallback
perform_chunk(t, n, continue) ==
    LET w == WriteCallback(n, loc[t].write_data, response[t].body,
                           loc[t].attempts, continue)
    IN  /\ pc[t] = "perform"
        /\ loc[t].aborted = "no"
        /\ loc[t].chunks < env.chunks
        /\ loc[t].write_data.use_stream \/ continue
        /\ loc' = [loc EXCEPT ![t].write_data = w.data,
                              ![t].chunks = @ + 1,
                              ![t].aborted = IF w.ret # n THEN "write" ELSE "no"]
        /\ response' = [response EXCEPT ![t].body = w.body]
        /\ hist' = [hist EXCEPT
                        ![t].delivered = IF w.called THEN @ + 1 ELSE @,
                        ![t].refused = IF w.called /\ ~continue
                                         THEN hist[t].delivered + 1 ELSE @]
        /\ UNCHANGED <<poolvars, pc, op, curl, implvars, header_lists_, easy, env>>

\* what curl_easy_perform can return
perform_results(t) ==
    CASE loc[t].aborted = "write" -> {WriteError}
      [] loc[t].aborted = "progress" -> {AbortedByCallback}
      [] OTHER -> env.results

\* what the caller of performSingleRequest looks at in `result`
Outcome(result) == [success |-> result.success, status_code |-> result.status_code,
                    error_type |-> result.error_type, request_id |-> result.request_id]

\* a classification that counts HTTP error statuses as failures
classify_send_http_errors(resp, r, data) ==
    IF r.code = "CURLE_OK" /\ r.status < 400
      THEN [resp EXCEPT !.success = TRUE, !.status_code = r.status]
      ELSE [resp EXCEPT !.error_message = curl_easy_strerror(r.code),
                        !.error_type = mapCurlErrorToErrorType(r.code)]

\* performSingleRequest after curl_easy_perform: if (res == CURLE_OK) ... else ...
classify_send(resp, r, data) ==
    IF r.code = "CURLE_OK"
      THEN IF data.size_exceeded
             THEN [resp EXCEPT !.success = FALSE, !.status_code = r.status,
                               !.error_message = "Response size exceeded maximum limit",
                               !.error_type = "ResponseTooLarge"]
             ELSE [resp EXCEPT !.success = TRUE, !.status_code = r.status]
      ELSE [resp EXCEPT !.error_message = curl_easy_strerror(r.code),
                        !.error_type = mapCurlErrorToErrorType(r.code)]

\* curl_easy_perform returns r in performSingleRequest; the failure is logged
performSingleRequest_perform(t, r) ==
    /\ pc[t] = "perform"
    /\ op[t] = "send"
    /\ r \in perform_results(t)
    /\ response' = [response EXCEPT ![t] = classify_send(@, r, loc[t].write_data)]
    /\ hist' = [hist EXCEPT ![t].results = Append(@, r),
                            ![t].outcomes = Append(@, Outcome(response'[t])),
                            ![t].total_time = @ \/ loc[t].request.enable_metrics]
    /\ pc' = [pc EXCEPT ![t] =
                IF r.code # "CURLE_OK" /\ LogThrows(LogLevel.Error)
                  THEN "threw" ELSE "release_lock"]
    /\ UNCHANGED <<poolvars, op, curl, implvars, loc, header_lists_, easy, env>>

\* a loop that retries every failure while attempts remain
loop_breaks_any_failure(result, attempts, max_attempts, retry) ==
    result.success \/ attempts >= max_attempts

\* the two `break`s of the loop in performRequest
loop_breaks(result, attempts, max_attempts, retry) ==
    LET should_retry == result.status_code \in retry.retry_status_codes
    IN  \/ result.success \/ attempts >= max_attempts
        \/ /\ ~should_retry
           /\ result.error_type # "NetworkError"
           /\ result.error_type # "TimeoutError"

\* performRequest after performSingleRequest returned `result`
performRequest_loop(t) ==
    LET result == response[t]
        l == loc[t]
        retry == config_.retry
        stop == loop_breaks(result, l.attempts, l.max_attempts, retry)
        sleeps == ~stop /\ l.attempts < l.max_attempts
        throws == sleeps /\ LogThrows(LogLevel.Info)
    IN  /\ pc[t] = "released"
        /\ op[t] = "send"
        /\ IF stop THEN Return(t, result, l, hist[t])
           ELSE IF throws
                  THEN /\ pc' = [pc EXCEPT ![t] = "threw"]
                       /\ UNCHANGED <<response, loc, hist>>
                  ELSE LoopOrReturn(t, result,
                           IF sleeps THEN [l EXCEPT !.delay = NextDelay(l.delay, retry)]
                           ELSE l,
                           IF sleeps THEN [hist[t] EXCEPT !.sleeps = Append(@, l.delay)]
                           ELSE hist[t])
        /\ UNCHANGED <<poolvars, op, curl, implvars, header_lists_, easy, env>>

\* ------------------------------------------------------------ streamResponse
\* a streamResponse that checks the URL first, as performRequest does
streamResponse_checked(t, request) ==
    /\ pc[t] = "idle"
    /\ header_lists_ < MaxHeaderLists
    /\ op' = [op EXCEPT ![t] = "stream"]
    /\ hist' = [hist EXCEPT ![t] = [NoHist EXCEPT !.request = request]]
    /\ loc' = [loc EXCEPT ![t] = [NoLocals EXCEPT !.request = request]]
    /\ response' = [response EXCEPT ![t] =
                        IF isValidUrl(request.url) THEN HttpResponse
                        ELSE [HttpResponse EXCEPT !.error_message = "Invalid URL",
                                                  !.error_type = "InvalidUrl"]]
    /\ pc' = [pc EXCEPT ![t] = IF isValidUrl(request.url) THEN "acquire_lock" ELSE "done"]
    /\ UNCHANGED <<poolvars, curl, implvars, header_lists_, easy, env>>

\* HttpClient::streamResponse -> Impl::streamResponse, which starts with acquire()
streamResponse(t, request) ==
    /\ pc[t] = "idle"
    /\ header_lists_ < MaxHeaderLists
    /\ op' = [op EXCEPT ![t] = "stream"]
    /\ hist' = [hist EXCEPT ![t] = [NoHist EXCEPT !.request = request]]
    /\ loc' = [loc EXCEPT ![t] = [NoLocals EXCEPT !.request = request]]
    /\ response' = [response EXCEPT ![t] = HttpResponse]
    /\ pc' = [pc EXCEPT ![t] = "acquire_lock"]
    /\ UNCHANGED <<poolvars, curl, implvars, header_lists_, easy, env>>

\* streamResponse between acquire() and curl_easy_perform()
streamResponse_setup(t) ==
    /\ pc[t] = "setup"
    /\ op[t] = "stream"
    /\ \E id \in GeneratedIds :
         response' = [response EXCEPT ![t] =
             [HttpResponse EXCEPT
                 !.request_id = request_id_for(loc[t].request, id),
                 !.success = FALSE]]
    /\ LET o == setupCurlOptions(config_, loc[t].request)
       IN  /\ loc' = [loc EXCEPT ![t].write_data =
                          [current_size |-> 0, size_exceeded |-> FALSE,
                           use_stream |-> TRUE, max_size |-> config_.max_response_size],
                                 ![t].httpheader = o.httpheader,
                                 ![t].push_back = o.push_back]
           /\ easy' = [easy EXCEPT ![curl[t]] =
                           curl_easy_setopt(@, config_, loc[t].request, o)]
           /\ pc' = [pc EXCEPT ![t] = AfterSetup(o)]
    /\ UNCHANGED <<mutex_, available_handles_, max_connections_, total_handles_, handles,
                   op, curl, implvars, hist, header_lists_, env>>

\* streamResponse after curl_easy_perform
classify_stream(resp, r) ==
    IF r.code = "CURLE_OK"
      THEN [resp EXCEPT !.success = TRUE, !.status_code = r.status]
      ELSE [resp EXCEPT !.error_message = curl_easy_strerror(r.code),
                        !.error_type = mapCurlErrorToErrorType(r.code)]

\* curl_easy_perform returns r in streamResponse
streamResponse_perform(t, r) ==
    /\ pc[t] = "perform"
    /\ op[t] = "stream"
    /\ r \in perform_results(t)
    /\ response' = [response EXCEPT ![t] = classify_stream(@, r)]
    /\ hist' = [hist EXCEPT ![t].results = Append(@, r),
                            ![t].total_time = @ \/ loc[t].request.enable_metrics]
    /\ pc' = [pc EXCEPT ![t] = "release_lock"]
    /\ UNCHANGED <<poolvars, op, curl, implvars, loc, header_lists_, easy, env>>

\* ------------------------------------------------------------ sendWithProgress
\* HttpClient::sendWithProgress -> Impl::sendWithProgress, which starts with acquire()
sendWithProgress(t, request) ==
    /\ pc[t] = "idle"
    /\ header_lists_ < MaxHeaderLists
    /\ op' = [op EXCEPT ![t] = "progress"]
    /\ hist' = [hist EXCEPT ![t] = [NoHist EXCEPT !.request = request]]
    /\ loc' = [loc EXCEPT ![t] = [NoLocals EXCEPT !.request = request]]
    /\ response' = [response EXCEPT ![t] = HttpResponse]
    /\ pc' = [pc EXCEPT ![t] = "acquire_lock"]
    /\ UNCHANGED <<poolvars, curl, implvars, header_lists_, easy, env>>

\* sendWithProgress between acquire() and curl_easy_perform()
sendWithProgress_setup(t) ==
    /\ pc[t] = "setup"
    /\ op[t] = "progress"
    /\ \E id \in GeneratedIds :
         response' = [response EXCEPT ![t] =
             [HttpResponse EXCEPT
                 !.request_id = request_id_for(loc[t].request, id),
                 !.success = FALSE]]
    /\ LET o == setupCurlOptions(config_, loc[t].request)
       IN  /\ loc' = [loc EXCEPT ![t].write_data =
                          [current_size |-> 0, size_exceeded |-> FALSE,
                           use_stream |-> FALSE, max_size |-> config_.max_response_size],
                                 ![t].cancelled = FALSE,
                                 ![t].httpheader = o.httpheader,
                                 ![t].push_back = o.push_back]
           /\ easy' = [easy EXCEPT ![curl[t]] =
                           [curl_easy_setopt(@, config_, loc[t].request, o)
                               EXCEPT !.noprogress = FALSE]]
           /\ pc' = [pc EXCEPT ![t] = AfterSetup(o)]
    /\ UNCHANGED <<mutex_, available_handles_, max_connections_, total_handles_, handles,
                   op, curl, implvars, hist, header_lists_, env>>

\* CurlProgressCallback: the progress callback answers `continue`
CurlProgressCallback(t, continue) ==
    /\ pc[t] = "perform"
    /\ op[t] = "progress"
    /\ loc[t].aborted = "no"
    /\ loc' = [loc EXCEPT ![t].cancelled = IF continue THEN @ ELSE TRUE,
                          ![t].aborted = IF continue THEN @ ELSE "progress"]
    /\ UNCHANGED <<poolvars, pc, op, curl, implvars, response, hist, header_lists_, easy, env>>

\* sendWithProgress after curl_easy_perform
classify_progress(resp, r, cancelled) ==
    IF r.code = "CURLE_OK" /\ ~cancelled
      THEN [resp EXCEPT !.success = TRUE, !.status_code = r.status]
      ELSE IF cancelled
             THEN [resp EXCEPT !.error_message = "Request cancelled by progress callback",
                               !.error_type = "Unknown"]
             ELSE [resp EXCEPT !.error_message = curl_easy_strerror(r.code),
                               !.error_type = mapCurlErrorToErrorType(r.code)]

\* curl_easy_perform returns r in sendWithProgress
sendWithProgress_perform(t, r) ==
    /\ pc[t] = "perform"
    /\ op[t] = "progress"
    /\ r \in perform_results(t)
    /\ response' = [response EXCEPT ![t] = classify_progress(@, r, loc[t].cancelled)]
    /\ hist' = [hist EXCEPT ![t].results = Append(@, r),
                            ![t].total_time = @ \/ loc[t].request.enable_metrics]
    /\ pc' = [pc EXCEPT ![t] = "release_lock"]
    /\ UNCHANGED <<poolvars, op, curl, implvars, loc, header_lists_, easy, env>>

\* the caller has the response; the locals are gone
ret(t) ==
    /\ pc[t] = "done"
    /\ pc' = [pc EXCEPT ![t] = "idle"]
    /\ response' = [response EXCEPT ![t] = HttpResponse]
    /\ loc' = [loc EXCEPT ![t] = NoLocals]
    /\ hist' = [hist EXCEPT ![t] = NoHist]
    /\ UNCHANGED <<poolvars, op, curl, implvars, header_lists_, easy, env>>

\* ------------------------------------------------------------ configuration
\* configuration is changed while no request is in flight
Quiet == \A t \in DOMAIN pc : pc[t] = "idle"

enableRetry(max_attempts) ==
    /\ Quiet
    /\ config_' = [config_ EXCEPT !.retry.max_attempts = max_attempts]
    /\ UNCHANGED <<poolvars, pc, op, curl, request_interceptors_,
                   response_interceptors_, log_callback_, reqvars, header_lists_, easy, env>>

disableRetry ==
    /\ Quiet
    /\ config_' = [config_ EXCEPT !.retry.max_attempts = 1]
    /\ UNCHANGED <<poolvars, pc, op, curl, request_interceptors_,
                   response_interceptors_, log_callback_, reqvars, header_lists_, easy, env>>

setMaxResponseSize(max_size) ==
    /\ Quiet
    /\ config_' = [config_ EXCEPT !.max_response_size = max_size]
    /\ UNCHANGED <<poolvars, pc, op, curl, request_interceptors_,
                   response_interceptors_, log_callback_, reqvars, header_lists_, easy, env>>

setDefaultHeader(name, value) ==
    /\ Quiet
    /\ config_' = [config_ EXCEPT !.default_headers = Put(@, name, value)]
    /\ UNCHANGED <<poolvars, pc, op, curl, request_interceptors_,
                   response_interceptors_, log_callback_, reqvars, header_lists_, easy, env>>

setUserAgent(user_agent) ==
    /\ Quiet
    /\ config_' = [config_ EXCEPT !.user_agent = user_agent,
                                  !.default_headers = Put(@, "User-Agent", user_agent)]
    /\ UNCHANGED <<poolvars, pc, op, curl, request_interceptors_,
                   response_interceptors_, log_callback_, reqvars, header_lists_, easy, env>>

\* setAuth; setBasicAuth, setBearerToken, setApiKey and clearAuth are
\* setAuth(auth::basic(..)), setAuth(auth::bearer(..)), setAuth(auth::apiKey(..))
\* and setAuth(Auth{})
setAuth(auth) ==
    /\ Quiet
    /\ config_' = [config_ EXCEPT !.auth = auth]
    /\ UNCHANGED <<poolvars, pc, op, curl, request_interceptors_,
                   response_interceptors_, log_callback_, reqvars, header_lists_, easy, env>>

\* an enableConnectionPooling that gives the pool the new maximum as well
enableConnectionPooling_resizes(max_connections) ==
    /\ Quiet
    /\ config_' = [config_ EXCEPT !.max_connections = max_connections]
    /\ max_connections_' = max_connections
    /\ UNCHANGED <<mutex_, available_handles_, total_handles_, handles, pc, op, curl,
                   request_interceptors_, response_interceptors_, log_callback_,
                   reqvars, header_lists_, easy, env>>

enableConnectionPooling(max_connections) ==
    /\ Quiet
    /\ config_' = [config_ EXCEPT !.max_connections = max_connections]
    /\ UNCHANGED <<poolvars, pc, op, curl, request_interceptors_,
                   response_interceptors_, log_callback_, reqvars, header_lists_, easy, env>>

disableConnectionPooling ==
    /\ Quiet
    /\ config_' = [config_ EXCEPT !.max_connections = 1]
    /\ UNCHANGED <<poolvars, pc, op, curl, request_interceptors_,
                   response_interceptors_, log_callback_, reqvars, header_lists_, easy, env>>

setConfig(config) ==
    /\ Quiet
    /\ config_' = config
    /\ UNCHANGED <<poolvars, pc, op, curl, request_interceptors_,
                   response_interceptors_, log_callback_, reqvars, header_lists_, easy, env>>

setLogCallback(callback) ==
    /\ Quiet
    /\ log_callback_' = callback
    /\ UNCHANGED <<poolvars, pc, op, curl, config_, request_interceptors_,
                   response_interceptors_, reqvars, header_lists_, easy, env>>

addRequestInterceptor(interceptor) ==
    /\ Quiet
    /\ Len(request_interceptors_) < MaxInterceptors
    /\ request_interceptors_' = Append(request_interceptors_, interceptor)
    /\ UNCHANGED <<poolvars, pc, op, curl, config_, response_interceptors_,
                   log_callback_, reqvars, header_lists_, easy, env>>

addResponseInterceptor(interceptor) ==
    /\ Quiet
    /\ Len(response_interceptors_) < MaxInterceptors
    /\ response_interceptors_' = Append(response_interceptors_, interceptor)
    /\ UNCHANGED <<poolvars, pc, op, curl, config_, request_interceptors_,
                   log_callback_, reqvars, header_lists_, easy, env>>

clearInterceptors ==
    /\ Quiet
    /\ request_interceptors_' = <<>>
    /\ response_interceptors_' = <<>>
    /\ UNCHANGED <<poolvars, pc, op, curl, config_, log_callback_, reqvars, header_lists_, easy, env>>

\* HttpClient::Impl(config): config_(config), connection_pool_(config.max_connections)
InitImpl(T, config) ==
    /\ mutex_ = 0
    /\ available_handles_ = <<>>
    /\ max_connections_ = config.max_connections
    /\ total_handles_ = 0
    /\ handles = {}
    /\ easy = [h \in {} |-> CurlDefaults]
    /\ config_ = config
    /\ request_interceptors_ = <<>>
    /\ response_interceptors_ = <<>>
    /\ log_callback_ = "null"
    /\ header_lists_ = 0
    /\ pc = [t \in T |-> "idle"]
    /\ op = [t \in T |-> "pool"]
    /\ curl = [t \in T |-> NULL]
    /\ response = [t \in T |-> HttpResponse]
    /\ loc = [t \in T |-> NoLocals]
    /\ hist = [t \in T |-> NoHist]

\* HttpClient::Impl(): connection_pool_(10), config_ default-initialised with
\* the default headers User-Agent and Accept
InitImplDefault(T) ==
    /\ InitImpl(T, [HttpConfig EXCEPT
                       !.default_headers = Put(Put(EmptyMap, "User-Agent", "Blaze/2.0"),
                                               "Accept", "*/*")])
    /\ max_connections_ = 10

\* ConnectionPool(max_connections): empty queue, counter 0
InitPool ==
    /\ \E n \in 0..MaxConn : InitImpl(PoolThreads, [HttpConfig EXCEPT !.max_connections = n])
    /\ env = [results |-> {}, chunks |-> 0]

NextPool ==
    \E t \in PoolThreads :
        \/ call_acquire(t)
        \/ acquire_lock(t)
        \/ acquire(t)
        \/ call_release(t)
        \/ call_release_null(t)
        \/ release_lock(t)
        \/ release(t)

SpecPool == InitPool /\ [][NextPool]_vars

\* ------------------------------------------------ one caller using send()
Network == [results |-> Results, chunks |-> MaxChunks]

\* HttpClient client(config), config.retry being one of the retry policies
InitSend ==
    /\ \E retry \in RetryConfigs : InitImpl({1}, [HttpConfig EXCEPT !.retry = retry])
    /\ env = Network

NextSend ==
    \/ \E request \in Requests : send(1, request)
    \/ acquire_lock(1)
    \/ acquire(1)
    \/ performSingleRequest_setup(1)
    \/ push_back(1)
    \/ push_back_end(1)
    \/ \E n \in 1..MaxChunkSize : perform_chunk(1, n, TRUE)
    \/ \E r \in AllResults : performSingleRequest_perform(1, r)
    \/ release_lock(1)
    \/ release(1)
    \/ performRequest_loop(1)
    \/ ret(1)
    \/ \E n \in -1..MaxAttempts : enableRetry(n)
    \/ disableRetry
    \/ \E n \in 0..MaxRespSize : setMaxResponseSize(n)
    \/ \E callback \in LogCallbacks : setLogCallback(callback)
    \/ \E i \in RequestInterceptors :
            request_interceptors_ = <<>> /\ addRequestInterceptor(i)
    \/ clearInterceptors

SpecSend == InitSend /\ [][NextSend]_vars

\* --------------------------- one caller using send() with interceptors
\* HttpClient client(config) allowing three attempts, on a network that
\* answers 200 or fails to resolve the host or to set up TLS
InitIntercept ==
    /\ InitImpl({1}, [HttpConfig EXCEPT !.retry = ScenarioRetry])
    /\ env = [results |-> {[code |-> "CURLE_OK", status |-> 200],
                           [code |-> "CURLE_COULDNT_RESOLVE_HOST", status |-> 0],
                           [code |-> "CURLE_SSL_CONNECT_ERROR", status |-> 0]},
              chunks |-> 0]

NextIntercept ==
    \/ \E request \in MetricsRequests : send(1, request)
    \/ acquire_lock(1)
    \/ acquire(1)
    \/ performSingleRequest_setup(1)
    \/ push_back(1)
    \/ push_back_end(1)
    \/ \E r \in AllResults : performSingleRequest_perform(1, r)
    \/ release_lock(1)
    \/ release(1)
    \/ performRequest_loop(1)
    \/ ret(1)
    \/ \E n \in {-1, 0, 3} : enableRetry(n)
    \/ \E callback \in LogCallbacks : setLogCallback(callback)
    \/ \E i \in RequestInterceptors : addRequestInterceptor(i)
    \/ \E i \in ResponseInterceptors : addResponseInterceptor(i)
    \/ clearInterceptors

SpecIntercept == InitIntercept /\ [][NextIntercept]_vars

\* ------------------------------ one caller using send() with headers
UserAgents == {"Blaze/2.0", "CustomAgent/1.0"}
Auths == {Auth, basic, bearer("token"), apiKey("key", "X-API-Key")}
HeaderRequests ==
    [url : {UrlValid},
     headers : {EmptyMap, Put(EmptyMap, "X-Test-Header", "request-value")},
     auth : {nullopt, optional(bearer("request-token"))},
     request_id : {<<>>}, enable_metrics : {TRUE}]

\* HttpClient client(config), config.user_agent being one of the user agents,
\* allowing two attempts, on a network that answers 200 or times out
InitHeaders ==
    /\ \E user_agent \in UserAgents :
         InitImpl({1}, [HttpConfig EXCEPT !.user_agent = user_agent,
                                          !.retry.max_attempts = 2])
    /\ env = [results |-> {[code |-> "CURLE_OK", status |-> 200],
                           [code |-> "CURLE_OPERATION_TIMEDOUT", status |-> 0]},
              chunks |-> 0]

NextHeaders ==
    \/ \E request \in HeaderRequests : send(1, request)
    \/ acquire_lock(1)
    \/ acquire(1)
    \/ performSingleRequest_setup(1)
    \/ push_back(1)
    \/ push_back_end(1)
    \/ \E r \in AllResults : performSingleRequest_perform(1, r)
    \/ release_lock(1)
    \/ release(1)
    \/ performRequest_loop(1)
    \/ ret(1)
    \/ setDefaultHeader("X-Test-Header", "test-value")
    \/ setUserAgent("TestAgent/1.0")
    \/ \E auth \in Auths : setAuth(auth)
    \/ request_interceptors_ = <<>> /\ addRequestInterceptor("add_header")

SpecHeaders == InitHeaders /\ [][NextHeaders]_vars

\* ------------------------------ several sendAsync() calls on one client
\* HttpClient::sendAsync: std::async runs send(request) on a thread of its own
sendAsync(t, request) == send(t, request)

\* requests that carry their own identifier, with or without a header
AsyncRequests ==
    [url : {UrlValid},
     headers : {EmptyMap, Put(EmptyMap, "X-Test-Header", "request-value")},
     auth : {nullopt},
     request_id : {<<"r", "1">>}, enable_metrics : {TRUE}]

\* HttpClient client(config) with a default header and no retry, on a
\* network that answers 200
InitAsync ==
    /\ \E n \in 1..MaxConn :
         InitImpl(Clients, [HttpConfig EXCEPT
                               !.max_connections = n,
                               !.default_headers = Put(EmptyMap, "Accept", "*/*"),
                               !.retry.max_attempts = 1])
    /\ env = [results |-> {[code |-> "CURLE_OK", status |-> 200]}, chunks |-> 0]

NextAsync ==
    \E t \in Clients :
        \/ \E request \in AsyncRequests : sendAsync(t, request)
        \/ acquire_lock(t)
        \/ acquire(t)
        \/ performSingleRequest_setup(t)
        \/ push_back(t)
        \/ push_back_end(t)
        \/ \E r \in AllResults : performSingleRequest_perform(t, r)
        \/ release_lock(t)
        \/ release(t)
        \/ performRequest_loop(t)
        \/ ret(t)

SpecAsync == InitAsync /\ [][NextAsync]_vars

\* ------------------- one caller using send() on a network that fails
\* HttpClient client(config) without retry, on a network where a transfer
\* can end with any CURLcode
ErrorResults == {[code |-> "CURLE_OK", status |-> 200]} \cup
                {[code |-> c, status |-> 0] : c \in CURLcode \ {"CURLE_OK"}}

InitErrors ==
    /\ InitImpl({1}, [HttpConfig EXCEPT !.retry.max_attempts = 1])
    /\ env = [results |-> ErrorResults, chunks |-> 0]

NextErrors ==
    \/ \E request \in Requests : send(1, request)
    \/ acquire_lock(1)
    \/ acquire(1)
    \/ performSingleRequest_setup(1)
    \/ \E r \in ErrorResults : performSingleRequest_perform(1, r)
    \/ release_lock(1)
    \/ release(1)
    \/ performRequest_loop(1)
    \/ ret(1)

SpecErrors == InitErrors /\ [][NextErrors]_vars

\* --------------------------- one caller using send() with many URLs
\* the URLs a caller passes: with the scheme http, https or ftp or with none,
\* then a host of up to MaxHostLen characters, which may be spaces
UrlSchemes == {<<>>, <<"h","t","t","p",":","/","/">>,
               <<"h","t","t","p","s",":","/","/">>, <<"f","t","p",":","/","/">>}
HostChars == {"a", "1", " "}
Hosts == UNION {[1..n -> HostChars] : n \in 0..MaxHostLen}
UrlRequests == {[GetRequest EXCEPT !.url = scheme \o host] :
                    scheme \in UrlSchemes, host \in Hosts}

\* HttpClient client(config) without retry, on a network that answers 200
InitUrl ==
    /\ InitImpl({1}, [HttpConfig EXCEPT !.retry.max_attempts = 1])
    /\ env = [results |-> {[code |-> "CURLE_OK", status |-> 200]}, chunks |-> 0]

NextUrl ==
    \/ \E request \in UrlRequests : send(1, request)
    \/ acquire_lock(1)
    \/ acquire(1)
    \/ performSingleRequest_setup(1)
    \/ \E r \in AllResults : performSingleRequest_perform(1, r)
    \/ release_lock(1)
    \/ release(1)
    \/ performRequest_loop(1)
    \/ ret(1)

SpecUrl == InitUrl /\ [][NextUrl]_vars

\* ------------------ callers of one client whose pooling is reconfigured
\* the configurations given to setConfig
SetConfigs == {[HttpConfig EXCEPT !.max_connections = n, !.retry.max_attempts = 1] :
                  n \in 0..MaxConn}

\* HttpClient client, or HttpClient client(config) with a pool of up to
\* MaxConn, on a network that answers 200
InitPooling ==
    /\ \/ InitImplDefault(Clients)
       \/ \E n \in 1..MaxConn :
             InitImpl(Clients, [HttpConfig EXCEPT !.max_connections = n,
                                                   !.retry.max_attempts = 1])
    /\ env = [results |-> {[code |-> "CURLE_OK", status |-> 200]}, chunks |-> 0]

NextPooling ==
    \/ \E n \in 1..(MaxConn + 1) : enableConnectionPooling(n)
    \/ disableConnectionPooling
    \/ \E config \in SetConfigs : setConfig(config)
    \/ \E t \in Clients :
        \/ send(t, GetRequest)
        \/ acquire_lock(t)
        \/ acquire(t)
        \/ performSingleRequest_setup(t)
        \/ push_back(t)
        \/ push_back_end(t)
        \/ \E r \in AllResults : performSingleRequest_perform(t, r)
        \/ release_lock(t)
        \/ release(t)
        \/ performRequest_loop(t)
        \/ ret(t)

SpecPooling == InitPooling /\ [][NextPooling]_vars

\* ------------- one caller using streamResponse() and sendWithProgress()
\* HttpClient client(config) with a retry policy and interceptors, on a
\* network that answers 200, fails to resolve the host or times out
InitTransfer ==
    /\ InitImpl({1}, [HttpConfig EXCEPT !.retry = ScenarioRetry])
    /\ env = [results |-> {[code |-> "CURLE_OK", status |-> 200],
                           [code |-> "CURLE_COULDNT_RESOLVE_HOST", status |-> 0],
                           [code |-> "CURLE_OPERATION_TIMEDOUT", status |-> 0]},
              chunks |-> 1]

NextTransfer ==
    \/ \E request \in Requests : streamResponse(1, request)
    \/ \E request \in Requests : sendWithProgress(1, request)
    \/ acquire_lock(1)
    \/ acquire(1)
    \/ streamResponse_setup(1)
    \/ sendWithProgress_setup(1)
    \/ \E n \in 1..MaxChunkSize, continue \in BOOLEAN : perform_chunk(1, n, continue)
    \/ \E continue \in BOOLEAN : CurlProgressCallback(1, continue)
    \/ \E r \in AllResults : streamResponse_perform(1, r)
    \/ \E r \in AllResults : sendWithProgress_perform(1, r)
    \/ release_lock(1)
    \/ release(1)
    \/ ret(1)
    \/ \E n \in {0, 1, 3} : enableRetry(n)
    \/ \E i \in RequestInterceptors : addRequestInterceptor(i)
    \/ \E i \in ResponseInterceptors : addResponseInterceptor(i)
    \/ clearInterceptors

SpecTransfer == InitTransfer /\ [][NextTransfer]_vars

\* ------------------------------------- one caller using streamResponse()
InitStream ==
    /\ \E n \in 1..MaxConn : InitImpl({1}, [HttpConfig EXCEPT !.max_connections = n])
    /\ env = Network

NextStream ==
    \/ \E request \in Requests : streamResponse(1, request)
    \/ acquire_lock(1)
    \/ acquire(1)
    \/ streamResponse_setup(1)
    \/ \E n \in 1..MaxChunkSize, continue \in BOOLEAN : perform_chunk(1, n, continue)
    \/ \E r \in AllResults : streamResponse_perform(1, r)
    \/ release_lock(1)
    \/ release(1)
    \/ ret(1)
    \/ \E n \in 0..(MaxRespSize + 1) : setMaxResponseSize(n)

SpecStream == InitStream /\ [][NextStream]_vars

\* ------------------------- several callers on one client at the same time
\* HttpClient client(config) with a small pool and two attempts, on a network
\* that answers 200 with an empty body or fails to resolve the host
InitClient ==
    /\ \E n \in 1..MaxConn :
         InitImpl(Clients, [HttpConfig EXCEPT !.max_connections = n,
                                               !.retry.max_attempts = 2])
    /\ env = [results |-> {[code |-> "CURLE_OK", status |-> 200],
                           [code |-> "CURLE_COULDNT_RESOLVE_HOST", status |-> 0]},
              chunks |-> 0]

NextClient ==
    \E t \in Clients :
        \/ send(t, GetRequest)
        \/ streamResponse(t, GetRequest)
        \/ sendWithProgress(t, GetRequest)
        \/ ConnectionPool_destructor
        \/ acquire_lock(t)
        \/ acquire(t)
        \/ performSingleRequest_setup(t)
        \/ streamResponse_setup(t)
        \/ sendWithProgress_setup(t)
        \/ CurlProgressCallback(t, FALSE)
        \/ \E r \in AllResults : performSingleRequest_perform(t, r)
        \/ \E r \in AllResults : streamResponse_perform(t, r)
        \/ \E r \in AllResults : sendWithProgress_perform(t, r)
        \/ release_lock(t)
        \/ release(t)
        \/ performRequest_loop(t)
        \/ ret(t)

SpecClient == InitClient /\ [][NextClient]_vars

\* ======================================================================
\* Properties
\* ======================================================================
Last(s) == s[Len(s)]
IsPrefix(s, u) == Len(s) <= Len(u) /\ \A i \in 1..Len(s) : s[i] = u[i]
Sending(t) == op[t] = "send" /\ pc[t] # "idle"

\* C1: a handle a request holds is never in the pool's available set, and no
\* two requests in flight hold the same handle.
C1_HandleOwnedOnce ==
    /\ \A t \in DOMAIN curl :
         curl[t] # NULL => curl[t] \notin Range(available_handles_)
    /\ \A t, u \in DOMAIN curl :
         (t # u /\ curl[t] # NULL) => curl[t] # curl[u]

\* a send() in its second attempt and a streamResponse() both in their
\* transfers, each on a handle that went through the pool
C1_Witness ==
    \E t, u \in DOMAIN pc :
        /\ t # u
        /\ pc[t] = "perform" /\ op[t] = "send" /\ loc[t].attempts = 2
        /\ pc[u] = "perform" /\ op[u] = "stream"
        /\ curl[t] # NULL /\ curl[u] # NULL

\* C2 (as claimed): once an attempt of send() is over - its outcome is being
\* classified, the call returned or it threw - every handle the call acquired
\* has been released exactly once, one per attempt, and none is still held.
C2_ReleasedOncePerAttempt ==
    \A t \in DOMAIN pc :
        (op[t] = "send" /\ pc[t] \in {"released", "done", "threw"}) =>
            /\ Len(hist[t].acquired) = loc[t].attempts
            /\ hist[t].released = hist[t].acquired
            /\ curl[t] = NULL

\* C3: the available set never holds more handles than the pool's maximum.
C3_AvailableBounded == Len(available_handles_) <= max_connections_

\* the pool is full and a release() destroyed a handle it had counted
C3_Witness ==
    /\ max_connections_ >= 1
    /\ Len(available_handles_) = max_connections_
    /\ total_handles_ < max_connections_

\* C4: a thread that holds the pool lock inside acquire() can always finish
\* it, with a handle, whatever is checked out: a new one when the available
\* set is empty; and whoever waits for the lock waits for a thread that is
\* inside acquire() or release() and can leave it.
C4_AcquireNeverWaits ==
    /\ \A t \in DOMAIN pc :
         pc[t] = "acquire" =>
            ENABLED (/\ acquire(t)
                     /\ curl'[t] # NULL
                     /\ (available_handles_ = <<>> => curl'[t] \notin handles))
    /\ mutex_ # 0 =>
         /\ pc[mutex_] \in {"acquire", "release"}
         /\ ENABLED (acquire(mutex_) \/ release(mutex_))

\* a pool of two with three handles checked out at once
C4_Witness ==
    /\ max_connections_ = 2
    /\ Cardinality({t \in DOMAIN curl : curl[t] # NULL}) >= 3

\* C5 (as claimed): the attempts of a send() are at most retry.max_attempts,
\* and exactly 1 when retry.max_attempts is 1, as after disableRetry().
C5_AttemptsAtMostMax ==
    \A t \in DOMAIN pc :
        Sending(t) =>
            /\ loc[t].attempts <= config_.retry.max_attempts
            /\ (pc[t] = "done" /\ config_.retry.max_attempts = 1) => loc[t].attempts = 1

\* C5 (amended): the attempts of a send() are at most retry.max_attempts, or
\* none when that is negative; when retry.max_attempts is 1 a send() whose URL
\* passes the check makes exactly 1 attempt.
C5_AttemptsBounded ==
    \A t \in DOMAIN pc :
        Sending(t) =>
            /\ loc[t].attempts <= Max(0, config_.retry.max_attempts)
            /\ Len(hist[t].results) <= loc[t].attempts
            /\ (pc[t] = "done" /\ config_.retry.max_attempts = 1
                  /\ isValidUrl(loc[t].request.url)) =>
                    (loc[t].attempts = 1 /\ Len(hist[t].results) = 1)

\* a send() that failed on every one of its three attempts
C5_Witness ==
    \E t \in DOMAIN pc :
        /\ Sending(t) /\ pc[t] = "done"
        /\ config_.retry.max_attempts = 3
        /\ Len(hist[t].results) = 3
        /\ ~response[t].success

ScenarioServer == <<[code |-> "CURLE_OK", status |-> 503],
                    [code |-> "CURLE_OK", status |-> 503],
                    [code |-> "CURLE_OK", status |-> 200]>>

\* C6 (as claimed): with the scenario's policy, a send() whose transfers got
\* what the scenario's server answers (503, 503, 200) returns after exactly
\* 3 attempts, having slept 100 then 200, with success and status 200.
C6_RetryOn503 ==
    \A t \in DOMAIN pc :
        (/\ Sending(t) /\ pc[t] = "done"
         /\ config_.retry = ScenarioRetry
         /\ hist[t].results # <<>>
         /\ IsPrefix(hist[t].results, ScenarioServer)) =>
            /\ hist[t].results = ScenarioServer
            /\ hist[t].sleeps = <<100, 200>>
            /\ response[t].success
            /\ response[t].status_code = 200

\* C7 (as claimed): with max_attempts >= 1 the sleeps of one send() never
\* decrease and none is longer than retry.max_delay.
C7_BackoffMonotoneCapped ==
    \A t \in DOMAIN pc :
        (Sending(t) /\ config_.retry.max_attempts >= 1) =>
            /\ \A i \in DOMAIN hist[t].sleeps :
                 hist[t].sleeps[i] <= config_.retry.max_delay
            /\ \A i, j \in DOMAIN hist[t].sleeps :
                 i <= j => hist[t].sleeps[i] <= hist[t].sleeps[j]

\* C8: a send() whose URL, as the request interceptors left it, fails the
\* check is over at once: no attempt, no acquire(), and the response it
\* returns has success=false, InvalidUrl and a message.
C8_InvalidUrlNoAttempt ==
    \A t \in DOMAIN pc :
        (Sending(t) /\ ~isValidUrl(loc[t].request.url)) =>
            /\ pc[t] \in {"done", "threw"}
            /\ loc[t].attempts = 0
            /\ hist[t].acquired = <<>>
            /\ hist[t].results = <<>>
            /\ curl[t] = NULL
            /\ pc[t] = "done" =>
                 /\ ~response[t].success
                 /\ response[t].error_type = "InvalidUrl"
                 /\ response[t].error_message # ""

\* a send() returned InvalidUrl for a URL that an interceptor had set
C8_Witness ==
    \E t \in DOMAIN pc :
        /\ Sending(t) /\ pc[t] = "done"
        /\ request_interceptors_ = <<"set_url">>
        /\ loc[t].request.url = UrlNoScheme
        /\ response[t].error_type = "InvalidUrl"

\* C9: a transfer of send() that completes (CURLE_OK) is the call's last one,
\* and the response returned then has success=true and that transfer's status
\* code, whatever the code.
C9_CompletedIsSuccess ==
    \A t \in DOMAIN pc :
        Sending(t) =>
            /\ \A i \in DOMAIN hist[t].results :
                 hist[t].results[i].code = "CURLE_OK" => i = Len(hist[t].results)
            /\ (/\ pc[t] = "done"
                /\ hist[t].results # <<>>
                /\ Last(hist[t].results).code = "CURLE_OK") =>
                    /\ response[t].success
                    /\ response[t].status_code = Last(hist[t].results).status

\* a send() returned success with status 500 after a failed first attempt
C9_Witness ==
    \E t \in DOMAIN pc :
        /\ Sending(t) /\ pc[t] = "done"
        /\ Len(hist[t].results) = 2
        /\ response[t].success
        /\ response[t].status_code = 500

\* C10 (as claimed): a send() whose last transfer was cut because the body
\* would exceed max_response_size returns success=false with ResponseTooLarge,
\* and no transfer that was cut that way is followed by another attempt.
C10_TooLargeReported ==
    \A t \in DOMAIN pc :
        Sending(t) =>
            /\ \A i \in DOMAIN hist[t].results :
                 hist[t].results[i].code = "CURLE_WRITE_ERROR" => i = Len(hist[t].results)
            /\ (pc[t] = "done" /\ loc[t].write_data.size_exceeded) =>
                 /\ ~response[t].success
                 /\ response[t].error_type = "ResponseTooLarge"

\* C11 (as claimed): the body of a response that send() returns is never
\* longer than max_response_size, whatever attempts the call went through.
C11_BodyWithinCap ==
    \A t \in DOMAIN pc :
        (Sending(t) /\ pc[t] = "done") =>
            Len(response[t].body) <= config_.max_response_size

\* C17: all along a send(), and in the response it returns on any path, the
\* request_id is the request's own when that is not empty and otherwise one
\* generated identifier of 36 characters, the same for every attempt.
C17_RequestIdKept ==
    \A t \in DOMAIN pc :
        Sending(t) =>
            /\ hist[t].request.request_id # <<>> =>
                    response[t].request_id = hist[t].request.request_id
            /\ hist[t].request.request_id = <<>> =>
                    /\ Len(response[t].request_id) = 36
                    /\ \A i \in 1..36 :
                         IF i \in {9, 14, 19, 24} THEN response[t].request_id[i] = "-"
                         ELSE response[t].request_id[i] \in Range(hex_chars)
            /\ \A k \in DOMAIN hist[t].outcomes :
                    hist[t].outcomes[k].request_id = response[t].request_id

\* send() returned, after a retry, a response with a generated request_id
C17_Witness ==
    \E t \in DOMAIN pc :
        /\ Sending(t) /\ pc[t] = "done"
        /\ hist[t].request.request_id = <<>>
        /\ Len(hist[t].outcomes) = 2
        /\ response[t].request_id \in GeneratedIds

\* whether attempt k, which ended with outcome o, is to be followed by another
RetryCondition(o, k, retry) ==
    /\ k < retry.max_attempts
    /\ ~o.success
    /\ \/ o.status_code \in retry.retry_status_codes
       \/ o.error_type \in {"NetworkError", "TimeoutError"}

\* C18: once send() has decided what follows attempt k - it started attempt
\* k+1 or it returned - attempt k+1 was started exactly when k < max_attempts,
\* attempt k had no success and its status code is a retry status or its
\* error is NetworkError or TimeoutError; and a send() that returned and whose
\* attempts all failed with NetworkError or TimeoutError made exactly
\* max_attempts attempts.
C18_RetryIff ==
    \A t \in DOMAIN pc :
        Sending(t) =>
            LET os == hist[t].outcomes
            IN  /\ \A k \in DOMAIN os :
                     (loc[t].attempts > k \/ pc[t] = "done") =>
                        (loc[t].attempts > k <=> RetryCondition(os[k], k, config_.retry))
                /\ (/\ pc[t] = "done"
                    /\ os # <<>>
                    /\ \A k \in DOMAIN os :
                         os[k].error_type \in {"NetworkError", "TimeoutError"}
                         /\ ~os[k].success) =>
                        Len(os) = config_.retry.max_attempts

\* a send() stopped on an SSL failure of its second attempt, a third being
\* allowed, after a first attempt that failed to resolve the host
C18_Witness ==
    \E t \in DOMAIN pc :
        /\ Sending(t) /\ pc[t] = "done"
        /\ config_.retry.max_attempts = 3
        /\ Len(hist[t].outcomes) = 2
        /\ hist[t].outcomes[1].error_type = "NetworkError"
        /\ hist[t].outcomes[2].error_type = "SSLError"

\* C19 (as claimed): a response that send() returns with success=true has
\* error_type None and no error message.
C19_SuccessHasNoError ==
    \A t \in DOMAIN pc :
        (Sending(t) /\ pc[t] = "done" /\ response[t].success) =>
            /\ response[t].error_type = "None"
            /\ response[t].error_message = ""

\* C20 (as claimed): the body of the response that send() returns is what
\* the last attempt received (the bytes of attempt k carry the number k), with
\* nothing of an earlier attempt.
C20_BodyOfLastAttempt ==
    \A t \in DOMAIN pc :
        (Sending(t) /\ pc[t] = "done" /\ loc[t].attempts >= 1) =>
            /\ \A i \in DOMAIN response[t].body : response[t].body[i] = loc[t].attempts
            /\ Len(response[t].body) = loc[t].write_data.current_size

\* C12: in streamResponse, once the stream callback has answered false on
\* chunk n, the chunks delivered to it stay n - it is not invoked again - and
\* the response returned has success=false, error_type Unknown and no body.
C12_StreamCancelled ==
    \A t \in DOMAIN pc :
        (op[t] = "stream" /\ hist[t].refused > 0) =>
            /\ hist[t].delivered = hist[t].refused
            /\ pc[t] = "done" =>
                 /\ ~response[t].success
                 /\ response[t].error_type = "Unknown"
                 /\ response[t].body = <<>>

\* a streamResponse() returned after its callback refused the first of the
\* chunks the server had to send
C12_Witness ==
    \E t \in DOMAIN pc :
        /\ op[t] = "stream" /\ pc[t] = "done"
        /\ hist[t].refused = 1
        /\ loc[t].chunks < env.chunks
        /\ hist[t].results = <<[code |-> "CURLE_WRITE_ERROR", status |-> 0]>>

\* the calls a send() is to make: each of the n request interceptors, first
\* to last; an acquire() and a release() of the same handle for each attempt;
\* each of the m response interceptors, first to last
RequestCalls(n) == [i \in 1..n |-> [call |-> "request_interceptor", index |-> i]]
ResponseCalls(m) == [i \in 1..m |-> [call |-> "response_interceptor", index |-> i]]
AttemptCalls(tr, n, k) ==
    /\ Len(tr) >= n + 2 * k
    /\ \A j \in 1..k :
         /\ tr[n + 2 * j - 1].call = "acquire"
         /\ tr[n + 2 * j].call = "release"
         /\ tr[n + 2 * j].index = tr[n + 2 * j - 1].index

\* C13: all along a send() with a valid URL the request
\* interceptors have each been invoked once, in registration order, before
\* anything else, and never again; no response interceptor is invoked while
\* the call is running; and when the call returns, every response interceptor
\* has been invoked once, in registration order, after the last release().
C13_InterceptorsOnceInOrder ==
    \A t \in DOMAIN pc :
        (Sending(t) /\ isValidUrl(loc[t].request.url)) =>
            LET tr == hist[t].trace
                n == Len(request_interceptors_)
                m == Len(response_interceptors_)
                k == Len(hist[t].acquired)
            IN  /\ Len(tr) >= n
                /\ SubSeq(tr, 1, n) = RequestCalls(n)
                /\ \A i \in (n + 1)..Len(tr) : tr[i].call # "request_interceptor"
                /\ pc[t] # "done" =>
                     \A i \in 1..Len(tr) : tr[i].call # "response_interceptor"
                /\ pc[t] = "done" =>
                     /\ Len(tr) = n + 2 * k + m
                     /\ k = loc[t].attempts
                     /\ AttemptCalls(tr, n, k)
                     /\ SubSeq(tr, n + 2 * k + 1, Len(tr)) = ResponseCalls(m)

\* a send() with two request and two response interceptors returned after
\* its third attempt
C13_Witness ==
    \E t \in DOMAIN pc :
        /\ Sending(t) /\ pc[t] = "done"
        /\ Len(request_interceptors_) = 2
        /\ Len(response_interceptors_) = 2
        /\ loc[t].attempts = 3
        /\ response[t].headers = Put(EmptyMap, "X-Response-Intercepted", "rewritten")

\* the names of the header lines in a list
LineNames(list) == {list[i][1] : i \in DOMAIN list}

\* C14 (as claimed): the header list a transfer of send() is started with
\* has a line for every default header of the client and every header of
\* the request as the interceptors left it, whatever the auth type; and every
\* line it has for a header of the request carries the request's value.
C14_HeadersMerged ==
    \A t \in DOMAIN pc :
        (Sending(t) /\ pc[t] = "perform") =>
            LET list == loc[t].httpheader
                headers == loc[t].request.headers
            IN  /\ DOMAIN config_.default_headers \subseteq LineNames(list)
                /\ DOMAIN headers \subseteq LineNames(list)
                /\ \A i \in DOMAIN list :
                     list[i][1] \in DOMAIN headers => list[i][2] = headers[list[i][1]]

\* C15 (as claimed): while requests run concurrently on one client, no step
\* of a request writes a member of the client other than the pool's available
\* set and counter, and those are written with the pool lock held.
C15_OnlyPoolWritten ==
    [][/\ UNCHANGED <<config_, request_interceptors_, response_interceptors_,
                      log_callback_, header_lists_>>
       /\ <<available_handles_, total_handles_>>' # <<available_handles_, total_handles_>>
            => mutex_ # 0]_vars

\* C16 (as claimed): whatever user_agent the client's configuration holds -
\* given to the constructor or set by setUserAgent - a transfer of send() whose
\* request names no User-Agent of its own, the auth type adding no header of
\* its own, is started with the header line User-Agent: user_agent.
C16_UserAgentSent ==
    \A t \in DOMAIN pc :
        (/\ Sending(t) /\ pc[t] = "perform"
         /\ "User-Agent" \notin DOMAIN loc[t].request.headers
         /\ value_or(loc[t].request.auth, config_.auth).type \in {"None", "Basic"}) =>
            \E i \in DOMAIN loc[t].httpheader :
                loc[t].httpheader[i] = <<"User-Agent", config_.user_agent>>

\* C21: the handle acquire() returned has every option at its default, be it
\* new or taken from the available set; so the options a transfer of send()
\* runs with are the ones its own request set: the header list of this
\* request, credentials exactly when its auth is Basic, and with no auth and
\* no header neither credentials nor a header line.
C21_HandleClean ==
    \A t \in DOMAIN pc :
        /\ pc[t] \in {"setup", "holding"} => easy[curl[t]] = CurlDefaults
        /\ (Sending(t) /\ pc[t] = "perform") =>
              LET auth == value_or(loc[t].request.auth, config_.auth)
                  options == easy[curl[t]]
              IN  /\ options.httpheader = loc[t].httpheader
                  /\ options.username <=> auth.type = "Basic"
                  /\ (/\ auth.type = "None"
                      /\ config_.default_headers = EmptyMap
                      /\ loc[t].request.headers = EmptyMap) =>
                        (options.httpheader = <<>> /\ ~options.username)

\* after an earlier request that put a header list on the handle, a send()
\* without auth and without headers is in its transfer on the same handle
C21_Witness ==
    \E t \in DOMAIN pc :
        /\ Sending(t) /\ pc[t] = "perform"
        /\ handles = {curl[t]}
        /\ header_lists_ > 0
        /\ config_.auth = Auth
        /\ ~loc[t].request.auth.has_value
        /\ config_.default_headers = EmptyMap
        /\ loc[t].request.headers = EmptyMap
        /\ easy[curl[t]].httpheader = <<>>

\* C22: the pool lock is owned only by a thread inside acquire() or
\* release(), never by one that is setting up or running a transfer; and while
\* a request is in its transfer, another thread that called acquire() or
\* release() gets the lock when it is free, and a thread that has it can
\* finish its acquire() or release().
C22_LockOnlyInPool ==
    /\ mutex_ # 0 => pc[mutex_] \in {"acquire", "release"}
    /\ \A t, u \in DOMAIN pc :
         (t # u /\ pc[t] = "perform") =>
            /\ mutex_ # t
            /\ (pc[u] = "acquire_lock" /\ mutex_ = 0) => ENABLED acquire_lock(u)
            /\ (pc[u] = "release_lock" /\ mutex_ = 0) => ENABLED release_lock(u)
            /\ pc[u] = "acquire" => ENABLED (acquire(u) /\ curl'[u] # NULL)
            /\ pc[u] = "release" => ENABLED (release(u) /\ curl'[u] = NULL)

\* one request is in its transfer while another thread is inside release()
\* with the lock, after a transfer of its own
C22_Witness ==
    \E t, u \in DOMAIN pc :
        /\ t # u
        /\ pc[t] = "perform" /\ curl[t] # NULL
        /\ pc[u] = "release" /\ mutex_ = u
        /\ Len(hist[u].results) = 1

\* the CURLcodes of libcurl that report a failure of TLS or of a certificate,
\* and those that report a failure to resolve, connect, send or receive
TlsFailureCodes == {"CURLE_SSL_CONNECT_ERROR", "CURLE_SSL_CERTPROBLEM", "CURLE_SSL_CIPHER",
                    "CURLE_SSL_CACERT", "CURLE_SSL_ENGINE_NOTFOUND",
                    "CURLE_SSL_ENGINE_SETFAILED", "CURLE_USE_SSL_FAILED",
                    "CURLE_SSL_ENGINE_INITFAILED", "CURLE_SSL_CACERT_BADFILE",
                    "CURLE_SSL_CRL_BADFILE", "CURLE_SSL_ISSUER_ERROR",
                    "CURLE_SSL_PINNEDPUBKEYNOTMATCH", "CURLE_SSL_INVALIDCERTSTATUS"}
NetworkFailureCodes == {"CURLE_COULDNT_RESOLVE_PROXY", "CURLE_COULDNT_RESOLVE_HOST",
                        "CURLE_COULDNT_CONNECT", "CURLE_SEND_ERROR", "CURLE_RECV_ERROR"}

\* the taxonomy entry the classification is to give a failure code
Taxonomy(code) ==
    CASE code = "CURLE_OPERATION_TIMEDOUT" -> "TimeoutError"
      [] code \in TlsFailureCodes -> "SSLError"
      [] code = "CURLE_URL_MALFORMAT" -> "InvalidUrl"
      [] code \in NetworkFailureCodes -> "NetworkError"
      [] OTHER -> "Unknown"

\* C23 (as claimed): the error_type a failed transfer of send() is given is
\* the taxonomy entry of its failure code - TimeoutError for a timeout,
\* SSLError for every TLS or certificate failure, InvalidUrl for a malformed
\* URL, NetworkError for resolve, connect, send and receive failures, Unknown
\* for every other code - and never None or ResponseTooLarge.
C23_ErrorTaxonomy ==
    \A t \in DOMAIN pc :
        (/\ Sending(t) /\ hist[t].results # <<>>
         /\ Last(hist[t].results).code # "CURLE_OK") =>
            /\ response[t].error_type = Taxonomy(Last(hist[t].results).code)
            /\ response[t].error_type \notin {"None", "ResponseTooLarge"}

\* a URL made of http:// or https:// and a non-empty host without whitespace
SchemePrefixes == {<<"h","t","t","p",":","/","/">>, <<"h","t","t","p","s",":","/","/">>}
HasPrefix(u, p) == Len(u) >= Len(p) /\ SubSeq(u, 1, Len(p)) = p
WellFormedUrl(u) ==
    \E p \in SchemePrefixes :
        /\ HasPrefix(u, p)
        /\ Len(u) > Len(p)
        /\ \A i \in (Len(p) + 1)..Len(u) : u[i] \notin Whitespace

\* a URL with another scheme or none, or with an empty host
NoSchemeOrHost(u) ==
    \/ \A p \in SchemePrefixes : ~HasPrefix(u, p)
    \/ u \in SchemePrefixes

\* C24 (as claimed): send() lets a URL pass its check - it goes on to a
\* transfer - whenever the URL is http:// or https:// and a non-empty host
\* without whitespace, a host of one character included; and it answers
\* InvalidUrl without an attempt whenever the URL has another scheme, no
\* scheme or an empty host.
C24_ValidUrl ==
    \A t \in DOMAIN pc :
        Sending(t) =>
            LET u == hist[t].request.url
                rejected == /\ pc[t] = "done" /\ loc[t].attempts = 0
                            /\ response[t].error_type = "InvalidUrl"
            IN  /\ WellFormedUrl(u) => ~rejected
                /\ NoSchemeOrHost(u) => rejected

\* what a step may do to the counter, and what release(nullptr) does
CounterStep ==
    /\ total_handles_' > total_handles_ =>
         /\ total_handles_' = total_handles_ + 1
         /\ mutex_ # 0 /\ pc[mutex_] = "acquire"
         /\ available_handles_ = <<>>
         /\ total_handles_ < max_connections_
         /\ \E h \in handles' \ handles : handles' = handles \cup {h}
    /\ total_handles_' < total_handles_ =>
         /\ total_handles_' = total_handles_ - 1
         /\ mutex_ # 0 /\ pc[mutex_] = "release"
         /\ Len(available_handles_) >= max_connections_
         /\ total_handles_ > 0
         /\ curl[mutex_] \in handles
         /\ handles' = handles \ {curl[mutex_]}
    /\ \A t \in DOMAIN pc :
         (pc[t] = "release_lock" /\ curl[t] = NULL /\ pc'[t] # pc[t]) =>
            /\ pc'[t] = "idle"
            /\ UNCHANGED <<mutex_, available_handles_, max_connections_,
                           total_handles_, handles, easy>>

\* C25: the counter of the pool is always between 0 and the maximum; a step
\* raises it by one only inside acquire(), when the available set is empty,
\* the counter is below the maximum and a handle is created; a step lowers it
\* by one only inside release(), when the available set is full, the counter
\* is positive and the handle is destroyed; and release(nullptr) returns
\* leaving the pool as it was.
C25_CounterBounded ==
    /\ [](0 <= total_handles_ /\ total_handles_ <= max_connections_)
    /\ [][CounterStep]_vars

\* a pool of one whose counter is back at 0 with the handle it holds: of three
\* handles released, one was kept and two destroyed, the second with the
\* counter already at 0
C25_Witness ==
    /\ max_connections_ = 1
    /\ total_handles_ = 0
    /\ Len(available_handles_) = 1
    /\ \A t \in DOMAIN pc : pc[t] = "idle"

\* C26: while no request is running on the client, the live handles are the
\* handles of the available set, each there once, and they are at most the
\* pool's maximum; and once the pool is destroyed no handle is live.
C26_HandlesAccounted ==
    /\ (\A t \in DOMAIN pc : pc[t] = "idle") =>
         /\ handles = Range(available_handles_)
         /\ Cardinality(handles) = Len(available_handles_)
         /\ Len(available_handles_) <= max_connections_
    /\ (\A t \in DOMAIN pc : pc[t] = "destroyed") =>
         /\ handles = {}
         /\ available_handles_ = <<>>

\* the pool of a client was destroyed after it had created two handles
C26_Witness ==
    /\ \A t \in DOMAIN pc : pc[t] = "destroyed"
    /\ total_handles_ = 2
    /\ handles = {}

\* a step leaves the pool's maximum as it is, and a step that changes the
\* configuration changes nothing else
PoolingStep ==
    /\ max_connections_' = max_connections_
    /\ config_' # config_ =>
         UNCHANGED <<mutex_, available_handles_, max_connections_, total_handles_,
                     handles, easy, pc, op, curl, request_interceptors_,
                     response_interceptors_, log_callback_, header_lists_,
                     response, loc, hist, env>>

\* C27: the pool's maximum is the one the constructor gave it - 10 for the
\* default constructor, which is the one that sets the default headers, and
\* config.max_connections otherwise - and no step changes it:
\* enableConnectionPooling, disableConnectionPooling and setConfig change the
\* configuration and nothing else.
C27_PoolBoundFixed ==
    /\ max_connections_ = config_.max_connections
    /\ "User-Agent" \in DOMAIN config_.default_headers => max_connections_ = 10
    /\ [][PoolingStep]_vars

\* a release() finds the pool of one full and is to destroy its handle, the
\* configuration saying two since enableConnectionPooling(2)
C27_Witness ==
    \E t \in DOMAIN pc :
        /\ pc[t] = "release" /\ mutex_ = t
        /\ max_connections_ = 1
        /\ config_.max_connections = 2
        /\ Len(available_handles_) = 1

\* C28: all along a send() its request is the caller's as the
\* request interceptors left it; when that URL fails the check the call is
\* over having made the request interceptors' calls and no other, no response
\* interceptor has touched the response and the total time was not assigned;
\* and a send() that returned, with response interceptors registered, has
\* invoked them exactly when the URL passed the check.
C28_InvalidUrlSkipsResponse ==
    \A t \in DOMAIN pc :
        Sending(t) =>
            LET tr == hist[t].trace
                n == Len(request_interceptors_)
                m == Len(response_interceptors_)
                valid == isValidUrl(loc[t].request.url)
                ran == \E i \in DOMAIN tr : tr[i].call = "response_interceptor"
            IN  /\ loc[t].request =
                        RunRequestInterceptors(request_interceptors_, hist[t].request)
                /\ ~valid =>
                     /\ pc[t] \in {"done", "threw"}
                     /\ tr = RequestCalls(n)
                     /\ response[t].headers = EmptyMap
                     /\ ~hist[t].total_time
                /\ (pc[t] = "done" /\ m >= 1) => (ran <=> valid)

\* a send() of a valid URL with metrics returned InvalidUrl, two request
\* interceptors - one setting the URL - and two response interceptors being
\* registered
C28_Witness ==
    \E t \in DOMAIN pc :
        /\ Sending(t) /\ pc[t] = "done"
        /\ hist[t].request.url = UrlValid
        /\ hist[t].request.enable_metrics
        /\ request_interceptors_ = <<"add_header", "set_url">>
        /\ Len(response_interceptors_) = 2
        /\ response[t].error_type = "InvalidUrl"

\* C29: with retry.max_attempts 0 or negative, a send() whose URL passes the
\* check is over at once: no attempt, no acquire(), no transfer; the response
\* it returns has success=false, status_code 0, error_type None and no error
\* message, and the response interceptors have each been invoked on it.
C29_NoAttemptsAllowed ==
    \A t \in DOMAIN pc :
        (/\ Sending(t)
         /\ isValidUrl(loc[t].request.url)
         /\ config_.retry.max_attempts <= 0) =>
            /\ pc[t] = "done"
            /\ loc[t].attempts = 0
            /\ hist[t].acquired = <<>>
            /\ hist[t].results = <<>>
            /\ curl[t] = NULL
            /\ ~response[t].success
            /\ response[t].status_code = 0
            /\ response[t].error_type = "None"
            /\ response[t].error_message = ""
            /\ hist[t].trace = RequestCalls(Len(request_interceptors_)) \o
                               ResponseCalls(Len(response_interceptors_))
            /\ response[t].headers =
                    RunResponseInterceptors(response_interceptors_, HttpResponse).headers

\* after enableRetry(0) a send() of a valid URL returned, two response
\* interceptors having run on its response
C29_Witness ==
    \E t \in DOMAIN pc :
        /\ Sending(t) /\ pc[t] = "done"
        /\ config_.retry.max_attempts = 0
        /\ isValidUrl(loc[t].request.url)
        /\ response_interceptors_ = <<"add_header", "rewrite_header">>
        /\ response[t].headers["X-Response-Intercepted"] = "rewritten"

\* a streamResponse() or sendWithProgress() call is under way or has returned
Transferring(t) == op[t] \in {"stream", "progress"} /\ pc[t] # "idle"

====
